---- MODULE Spec2Model ----
(***************************************************************************)
(* WebAuthn ceremonies of allauth.mfa.webauthn: the session's challenge    *)
(* and ceremony state, the authenticator record store, and the four        *)
(* ceremony operations with the record adapter.                            *)
(*                                                                         *)
(* Optional values (Python's None) are sets of at most one element: {} is  *)
(* None, {x} is the value x.  The session is a mapping from its two keys   *)
(* to optional values; an absent key maps to {}.                           *)
(*                                                                         *)
(* Every handler is one atomic action on one session (the ambient          *)
(* context.request.session).  The verification collaborator, fido2's       *)
(* Fido2Server, lies outside the module and is modelled by its interface:  *)
(* its state holds the expected challenge and the user-verification        *)
(* requirement, and its complete operations parse the response (TypeError) *)
(* and verify it against the state (ValueError), subscripting the state    *)
(* on the way (TypeError when it is None).  The collaborator is given that *)
(* it rejects a registration of a credential it was told to exclude.       *)
(*                                                                         *)
(* Spec is the ceremonies over the table they build themselves;            *)
(* RepositorySpec is the repository's lookups over any table, records      *)
(* without credential data and records of another type included;           *)
(* AdapterSpec is the record adapter over every name, flag and data;       *)
(* StoreChangeSpec is an authentication while records are added and        *)
(* deleted by others; ParallelSpec is two begin calls taken one session    *)
(* access at a time instead of atomically.                                 *)
(* The variables marked history record what was called and what came of    *)
(* it; no operation reads them.                                            *)
(***************************************************************************)
EXTENDS Integers, Sequences, FiniteSets, TLC

\* ---------------------------------------------------------------- bounds
NumUsers == 2
NumCreds == 2
NumChallenges == 2
MaxRecords == 2

Users == 1..NumUsers
\* primary keys a user handle may decode to: one more than there are accounts
Pks == 1..(NumUsers + 1)
CredIds == 1..NumCreds
Challenges == 1..NumChallenges

\* ------------------------------------------------------------- constants
CHALLENGE_SESSION_KEY == "mfa.webauthn.challenge"
STATE_SESSION_KEY == "mfa.webauthn.state"
SessionKeys == {CHALLENGE_SESSION_KEY, STATE_SESSION_KEY}

WEBAUTHN == "webauthn"
TOTP == "totp"
DISCOURAGED == "discouraged"
PREFERRED == "preferred"
CREATE == "webauthn.create"
GET == "webauthn.get"

VARIABLES
    session,   \* context.request.session: key -> optional value
    store,     \* the Authenticator table, in insertion order
    begun,     \* history: the kind and user of the begin whose state is stored
    issued,    \* history: the challenge of the begins since the last success
    accepts,   \* history: successful completions since the last mint
    consumed,  \* history: a completion succeeded and no begin followed
    last,      \* history: the last call, its arguments' case and its outcome
    calls      \* the begin calls in progress: each one's position and locals

vars == <<session, store, begun, issued, accepts, consumed, last, calls>>

\* ------------------------------------------------------------- encodings
\* fido2.utils.websafe_encode / websafe_decode: bytes <-> base64url text
websafe_encode(b) == <<"b64url", b>>
websafe_decode(t) == t[2]

\* base64.b64encode / b64decode
b64encode(b) == <<"b64", b>>
b64decode(t) == t[2]

\* bytes(authenticator_data) and AuthenticatorData(bytes)
AuthenticatorData_bytes(ad) == <<"authdata", ad.credential_data>>
AuthenticatorData(b) == [credential_data |-> b[2]]

serialize_authenticator_data(authenticator_data) ==
    b64encode(AuthenticatorData_bytes(authenticator_data))

\* ------------------------------------------------------- session accessors
session_get(s, k) == s[k]
session_set(s, k, v) == [s EXCEPT ![k] = {v}]
session_pop(s, k) == [s EXCEPT ![k] = {}]

\* a generate_challenge that mints whether or not a challenge is stored
generate_challenge_always_mints(s, fresh) ==
    [session |-> [s EXCEPT ![CHALLENGE_SESSION_KEY] = {<<"b64url", fresh>>}],
     challenge |-> fresh,
     minted |-> TRUE]

\* generate_challenge: fresh stands for os.urandom(32)
generate_challenge(s, fresh) ==
    LET challenge == session_get(s, CHALLENGE_SESSION_KEY)
    IN  IF challenge # {}
        THEN [session |-> s,
              challenge |-> websafe_decode(CHOOSE c \in challenge : TRUE),
              minted |-> FALSE]
        ELSE [session |-> session_set(s, CHALLENGE_SESSION_KEY, websafe_encode(fresh)),
              challenge |-> fresh,
              minted |-> TRUE]

\* a consume_challenge that leaves the key in place
consume_challenge_keeps(s) == s

consume_challenge(s) == session_pop(s, CHALLENGE_SESSION_KEY)

get_state(s) == session_get(s, STATE_SESSION_KEY)

set_state(s, state) == session_set(s, STATE_SESSION_KEY, state)

\* a clear_state that leaves the key in place
clear_state_keeps(s) == s

clear_state(s) == session_pop(s, STATE_SESSION_KEY)

\* ------------------------------------------------------- outcomes of a call
\* A call returns, raises the adapter's validation error, or lets a raw Python
\* exception escape.
OK == "ok"
INCORRECT_CODE == "incorrect_code"
VALUE_ERROR == "ValueError"
TYPE_ERROR == "TypeError"
ATTRIBUTE_ERROR == "AttributeError"
ASSERTION_ERROR == "AssertionError"

Returned(v) == [exc |-> OK, value |-> {v}]
Raised(e) == [exc |-> e, value |-> {}]

\* get_adapter().validation_error("incorrect_code")
validation_error(code) == Raised(code)

\* --------------------------------------------------------- record adapter
\* an instance that always records the key as not passwordless
WebAuthn_instance_never_passwordless(user, name, authenticator_data, passwordless) ==
    [user |-> user,
     type |-> WEBAUTHN,
     data |-> [name |-> name,
               authenticator_data |-> authenticator_data,
               passwordless |-> FALSE]]

\* Authenticator(user=..., type=WEBAUTHN, data={...}) as WebAuthn.add builds it
WebAuthn_instance(user, name, authenticator_data, passwordless) ==
    [user |-> user,
     type |-> WEBAUTHN,
     data |-> [name |-> name,
               authenticator_data |-> authenticator_data,
               passwordless |-> passwordless]]

\* WebAuthn.add: build the instance and save it (appended to the table)
WebAuthn_add(st, user, name, authenticator_data, passwordless) ==
    Append(st, WebAuthn_instance(user, name, authenticator_data, passwordless))

WebAuthn_name(instance) == instance.data.name

\* authenticator.wrap().authenticator_data
WebAuthn_authenticator_data(instance) ==
    AuthenticatorData(b64decode(instance.data.authenticator_data))

WebAuthn_is_passwordless(instance) == instance.data.passwordless

\* ---------------------------------------------------- credential repository
\* Authenticator.objects.filter(user=user, type=WEBAUTHN), as row indices
UserWebAuthnRows(st, user) ==
    SelectSeq([i \in 1..Len(st) |-> i],
              LAMBDA i : st[i].user = user /\ st[i].type = WEBAUTHN)

\* Authenticator.objects.filter(type=WEBAUTHN), as row indices
AllWebAuthnRows(st) ==
    SelectSeq([i \in 1..Len(st) |-> i], LAMBDA i : st[i].type = WEBAUTHN)

RECURSIVE CollectCredentials(_, _, _)
\* the loop of get_credentials over rows[k..]
CollectCredentials(st, rows, k) ==
    IF k > Len(rows) THEN <<>>
    ELSE LET credential_data ==
                 WebAuthn_authenticator_data(st[rows[k]]).credential_data
         IN  IF credential_data # {}
             THEN <<CHOOSE c \in credential_data : TRUE>>
                      \o CollectCredentials(st, rows, k + 1)
             ELSE CollectCredentials(st, rows, k + 1)

\* a get_credentials that filters on the type only, not on the user
get_credentials_of_all_users(st, user) ==
    CollectCredentials(st, AllWebAuthnRows(st), 1)

get_credentials(st, user) == CollectCredentials(st, UserWebAuthnRows(st, user), 1)

RECURSIVE ScanByCredentialId(_, _, _, _)
\* the loop of get_authenticator_by_credential_id over rows[k..]: reading
\* .credential_id of an absent credential_data raises AttributeError
ScanByCredentialId(st, rows, k, credential_id) ==
    IF k > Len(rows) THEN [exc |-> OK, value |-> {}]
    ELSE LET credential_data ==
                 WebAuthn_authenticator_data(st[rows[k]]).credential_data
         IN  IF credential_data = {} THEN Raised(ATTRIBUTE_ERROR)
             ELSE IF credential_id = (CHOOSE c \in credential_data : TRUE).credential_id
                  THEN Returned(rows[k])
                  ELSE ScanByCredentialId(st, rows, k + 1, credential_id)

\* a lookup that returns the first webauthn row without comparing identifiers
get_authenticator_by_credential_id_first_row(st, user, credential_id) ==
    LET rows == AllWebAuthnRows(st)
    IN  IF Len(rows) = 0 THEN [exc |-> OK, value |-> {}] ELSE Returned(rows[1])

\* the user argument is not used; a found authenticator is given as its row
get_authenticator_by_credential_id(st, user, credential_id) ==
    ScanByCredentialId(st, AllWebAuthnRows(st), 1, credential_id)

\* ------------------------------------------- verification collaborator (fido2)
\* The ceremony state the server hands back: the expected challenge (encoded)
\* and the user-verification requirement, with the ceremony's other
\* parameters: which begin produced it and the credentials it excludes.
make_internal_state(challenge, user_verification, kind, exclude) ==
    [challenge |-> websafe_encode(challenge),
     user_verification |-> user_verification,
     kind |-> kind,
     exclude |-> exclude]

CredentialIds(credentials) ==
    {credentials[i].credential_id : i \in 1..Len(credentials)}

\* Fido2Server.register_begin -> (options, state)
register_begin(user, credentials, user_verification, challenge) ==
    [options |-> [kind |-> "create",
                  user |-> {user},
                  challenge |-> challenge,
                  credentials |-> CredentialIds(credentials),
                  userVerification |-> user_verification],
     state |-> make_internal_state(challenge, user_verification,
                                   "registration", CredentialIds(credentials))]

\* Fido2Server.authenticate_begin -> (options, state)
authenticate_begin(credentials, user_verification, challenge) ==
    [options |-> [kind |-> "get",
                  user |-> {},
                  challenge |-> challenge,
                  credentials |-> CredentialIds(credentials),
                  userVerification |-> user_verification],
     state |-> make_internal_state(challenge, user_verification,
                                   "authentication", {})]

\* RegistrationResponse.from_dict / AuthenticationResponse.from_dict raise
\* TypeError on a response that lacks the structured fields
from_dict_fails(response) == response.shape # "ok"

\* Fido2Server.register_complete(state, response): parse, client data type,
\* expected challenge (state["challenge"], a TypeError when state is None),
\* the remaining verification, the excluded credentials; returns the
\* authenticator data of the attestation, which the server asserts to hold
\* attested credential data.
register_complete(state, response) ==
    IF from_dict_fails(response) THEN Raised(TYPE_ERROR)
    ELSE IF response.type # CREATE THEN Raised(VALUE_ERROR)
    ELSE IF state = {} THEN Raised(TYPE_ERROR)
    ELSE LET st == CHOOSE x \in state : TRUE
         IN  IF websafe_decode(st.challenge) # response.challenge
             THEN Raised(VALUE_ERROR)
             ELSE IF ~response.verifies THEN Raised(VALUE_ERROR)
             ELSE IF \E c \in response.cred : c.credential_id \in st.exclude
                  THEN Raised(VALUE_ERROR)
             ELSE IF response.cred = {} THEN Raised(ASSERTION_ERROR)
                  ELSE Returned([credential_data |-> response.cred])

RECURSIVE MatchCredential(_, _, _)
\* the loop of authenticate_complete over credentials[k..]: the signature is
\* verified with the public key of the first credential that has the
\* response's id (response.verifies: it verifies under that key)
MatchCredential(credentials, k, response) ==
    IF k > Len(credentials) THEN Raised(VALUE_ERROR)
    ELSE IF credentials[k].credential_id = response.id
         THEN IF response.verifies
              THEN Returned(credentials[k])
              ELSE Raised(VALUE_ERROR)
         ELSE MatchCredential(credentials, k + 1, response)

\* Fido2Server.authenticate_complete(state, credentials, response)
authenticate_complete(state, credentials, response) ==
    IF from_dict_fails(response) THEN Raised(TYPE_ERROR)
    ELSE IF response.type # GET THEN Raised(VALUE_ERROR)
    ELSE IF state = {} THEN Raised(TYPE_ERROR)
    ELSE LET st == CHOOSE x \in state : TRUE
         IN  IF websafe_decode(st.challenge) # response.challenge
             THEN Raised(VALUE_ERROR)
             ELSE MatchCredential(credentials, 1, response)

\* ----------------------------------------------------------- user accounts
\* url_str_to_user_pk(websafe_decode(user_handle).decode("utf8")): a handle
\* is the encoded text of a primary key, or text that is none, or no base64
user_pk_to_url_str(pk) == <<"pk", pk>>
JunkText == <<"junk">>
JunkHandle == <<"not-base64">>
websafe_decodable(t) == t[1] = "b64url"
is_pk_str(t) == t[1] = "pk"
url_str_to_user_pk(t) == t[2]

\* get_user_model().objects.filter(pk=user_pk).first()
user_by_pk(pk) == IF pk \in Users THEN {pk} ELSE {}

\* ---------------------------------------------------------- ceremony engine
\* a begin_registration that hands the collaborator a new challenge instead
\* of the one generate_challenge returned
begin_registration_with_fresh_challenge(s, st, user, fresh) ==
    LET credentials == get_credentials(st, user)
        g == generate_challenge(s, fresh)
        b == register_begin(user, credentials, DISCOURAGED, fresh)
    IN  [session |-> set_state(g.session, b.state),
         result |-> Returned(b.options),
         minted |-> g.minted]

begin_registration(s, st, user, fresh) ==
    LET credentials == get_credentials(st, user)
        g == generate_challenge(s, fresh)
        b == register_begin(user, credentials, DISCOURAGED, g.challenge)
    IN  [session |-> set_state(g.session, b.state),
         result |-> Returned(b.options),
         minted |-> g.minted]

\* a complete_registration that consumes the challenge whatever the outcome
complete_registration_always_consuming(s, credential) ==
    LET state == get_state(s)
        binding == register_complete(state, credential)
    IN  [session |-> clear_state(consume_challenge(s)), result |-> binding]

complete_registration(s, credential) ==
    LET state == get_state(s)
        binding == register_complete(state, credential)
    IN  IF binding.exc # OK
        THEN [session |-> s, result |-> binding]
        ELSE [session |-> clear_state(consume_challenge(s)), result |-> binding]

\* a begin_authentication that allows no credentials whoever the user is
begin_authentication_without_credentials(s, st, user, fresh) ==
    LET g == generate_challenge(s, fresh)
        b == authenticate_begin(<<>>, PREFERRED, g.challenge)
    IN  [session |-> set_state(g.session, b.state),
         result |-> Returned(b.options),
         minted |-> g.minted]

begin_authentication(s, st, user, fresh) ==
    LET credentials == IF user # {}
                       THEN get_credentials(st, CHOOSE u \in user : TRUE)
                       ELSE <<>>
        g == generate_challenge(s, fresh)
        b == authenticate_begin(credentials, PREFERRED, g.challenge)
    IN  [session |-> set_state(g.session, b.state),
         result |-> Returned(b.options),
         minted |-> g.minted]

\* response.get("response", {}).get("userHandle") raises AttributeError when
\* the "response" member is present and no mapping; the TypeError of decoding
\* None and the ValueError of decoding junk are caught
extract_user_from_response(response) ==
    IF response.shape = "response_not_mapping" THEN Raised(ATTRIBUTE_ERROR)
    ELSE IF response.userHandle = {} THEN validation_error(INCORRECT_CODE)
    ELSE LET user_handle == CHOOSE h \in response.userHandle : TRUE
         IN  IF ~websafe_decodable(user_handle)
             THEN validation_error(INCORRECT_CODE)
             ELSE IF ~is_pk_str(websafe_decode(user_handle))
                  THEN validation_error(INCORRECT_CODE)
                  ELSE LET user == user_by_pk(
                                       url_str_to_user_pk(websafe_decode(user_handle)))
                       IN  IF user = {}
                           THEN validation_error(INCORRECT_CODE)
                           ELSE Returned(CHOOSE u \in user : TRUE)

\* a complete_authentication that verifies against the credentials the
\* pending begin call allowed instead of those in the table now
complete_authentication_as_begun(s, st, user, response) ==
    LET credentials ==
            SelectSeq([i \in 1..NumCreds |-> [credential_id |-> i]],
                      LAMBDA c : \E b \in begun : c.credential_id \in b.credentials)
        state == get_state(s)
        binding == authenticate_complete(state, credentials, response)
    IN  IF binding.exc = VALUE_ERROR
        THEN [session |-> s, result |-> validation_error(INCORRECT_CODE),
              binding |-> {}, user |-> {user}]
        ELSE IF binding.exc # OK
        THEN [session |-> s, result |-> binding, binding |-> {}, user |-> {user}]
        ELSE [session |-> clear_state(consume_challenge(s)),
              result |-> get_authenticator_by_credential_id(
                             st, user,
                             (CHOOSE b \in binding.value : TRUE).credential_id),
              binding |-> binding.value,
              user |-> {user}]

\* the part of complete_authentication after the user is known
complete_authentication_as(s, st, user, response) ==
    LET credentials == get_credentials(st, user)
        state == get_state(s)
        binding == authenticate_complete(state, credentials, response)
    IN  IF binding.exc = VALUE_ERROR
        THEN [session |-> s, result |-> validation_error(INCORRECT_CODE),
              binding |-> {}, user |-> {user}]
        ELSE IF binding.exc # OK
        THEN [session |-> s, result |-> binding, binding |-> {}, user |-> {user}]
        ELSE [session |-> clear_state(consume_challenge(s)),
              result |-> get_authenticator_by_credential_id(
                             st, user,
                             (CHOOSE b \in binding.value : TRUE).credential_id),
              binding |-> binding.value,
              user |-> {user}]

complete_authentication(s, st, user, response) ==
    IF user = {}
    THEN LET extracted == extract_user_from_response(response)
         IN  IF extracted.exc # OK
             THEN [session |-> s, result |-> extracted, binding |-> {}, user |-> {}]
             ELSE complete_authentication_as(
                      s, st, CHOOSE u \in extracted.value : TRUE, response)
    ELSE complete_authentication_as(s, st, CHOOSE u \in user : TRUE, response)

\* ------------------------------------------------------------------ inputs
\* what a client may post to complete_registration
RegistrationResponses ==
    [shape : {"ok"}, type : {CREATE, GET}, challenge : Challenges,
     cred : {{}} \cup {{[credential_id |-> c]} : c \in CredIds},
     verifies : BOOLEAN]
    \cup
    [shape : {"missing_fields"}, type : {CREATE}, challenge : {1},
     cred : {{}}, verifies : {FALSE}]

UserHandles ==
    {{}, {JunkHandle}, {websafe_encode(JunkText)}}
    \cup {{websafe_encode(user_pk_to_url_str(pk))} : pk \in Pks}

\* what a client may post to complete_authentication; the fields a malformed
\* response never gets read are fixed
AuthenticationResponses ==
    [shape : {"ok"}, userHandle : UserHandles, type : {CREATE, GET},
     challenge : Challenges, id : CredIds, verifies : BOOLEAN]
    \cup
    [shape : {"missing_fields"}, userHandle : UserHandles, type : {GET},
     challenge : {1}, id : {1}, verifies : {FALSE}]
    \cup
    [shape : {"response_not_mapping"}, userHandle : {{}}, type : {GET},
     challenge : {1}, id : {1}, verifies : {FALSE}]

\* the case of a response's user handle
HandleCase(response) ==
    IF response.userHandle = {} THEN "missing"
    ELSE LET h == CHOOSE x \in response.userHandle : TRUE
         IN  IF ~websafe_decodable(h) THEN "undecodable"
             ELSE IF ~is_pk_str(websafe_decode(h)) THEN "undecodable"
             ELSE IF url_str_to_user_pk(websafe_decode(h)) \in Users THEN "known"
             ELSE "unknown"

\* the case of a response's user handle, "no_mapping" when the response holds
\* no mapping to look it up in
ResponseCase(response) ==
    IF response.shape = "response_not_mapping" THEN "no_mapping"
    ELSE HandleCase(response)

\* the calls of complete_authentication: the user handle is read only when no
\* user is given, and the rest of the response only when a user is found
AuthenticationCalls ==
    {c \in [user : {{}} \cup {{u} : u \in Users}, response : AuthenticationResponses] :
        /\ c.user # {} => c.response.userHandle = {}
        /\ (c.user = {} /\ ResponseCase(c.response) # "known") =>
               /\ c.response.type = GET
               /\ c.response.challenge = 1
               /\ c.response.id = 1
               /\ ~c.response.verifies}

\* the name and the passwordless flag the caller gives WebAuthn.add; no
\* operation of the ceremonies reads them
Names == {"key"}
Flags == {FALSE}

\* ------------------------------------------------------------------- state
NoCall ==
    [op |-> "none", exc |-> OK, value |-> {}, user |-> {}, handle |-> "none",
     preChallenge |-> {}, hadState |-> FALSE, prior |-> {}, wasConsumed |-> FALSE,
     binding |-> {}, began |-> {}, verified |-> {}]

\* the requests that may run a begin call on the session at the same time
Callers == {"a", "b"}

\* a request that has not entered its begin call
Idle == [pc |-> "idle", kind |-> "none", user |-> {}, challenge |-> {}]

Init ==
    /\ calls = [p \in Callers |-> Idle]
    /\ session = [k \in SessionKeys |-> {}]
    /\ store = <<>>
    /\ begun = {}
    /\ issued = {}
    /\ accepts = 0
    /\ consumed = FALSE
    /\ last = NoCall

\* began: the begin call whose state the session held when the call was made;
\* verified: the user whose credentials the call verified the response against
Call(op, r, user, handle, binding, verified) ==
    [op |-> op, exc |-> r.exc, value |-> r.value, user |-> user, handle |-> handle,
     preChallenge |-> session_get(session, CHALLENGE_SESSION_KEY),
     hadState |-> get_state(session) # {},
     prior |-> issued, wasConsumed |-> consumed, binding |-> binding,
     began |-> begun, verified |-> verified]

Begin(op, kind, user, r) ==
    /\ session' = r.session
    /\ begun' = {[kind |-> kind, user |-> user,
                   credentials |-> (CHOOSE o \in r.result.value : TRUE).credentials]}
    /\ issued' = {(CHOOSE o \in r.result.value : TRUE).challenge}
    /\ accepts' = IF r.minted THEN 0 ELSE accepts
    /\ consumed' = FALSE
    /\ last' = Call(op, r.result, user, "none", {}, {})
    /\ UNCHANGED <<store, calls>>

BeginRegistration ==
    \E user \in Users, fresh \in Challenges :
        Begin("begin_registration", "registration", {user},
              begin_registration(session, store, user, fresh))

BeginAuthentication ==
    \E user \in {{}} \cup {{u} : u \in Users}, fresh \in Challenges :
        Begin("begin_authentication", "authentication", user,
              begin_authentication(session, store, user, fresh))

Complete(op, user, handle, r, binding, verified) ==
    /\ session' = r.session
    /\ begun' = IF get_state(r.session) = {} THEN {} ELSE begun
    /\ issued' = IF r.result.exc = OK THEN {} ELSE issued
    /\ accepts' = IF r.result.exc = OK /\ accepts < 2 THEN accepts + 1 ELSE accepts
    /\ consumed' = (consumed \/ r.result.exc = OK)
    /\ last' = Call(op, r.result, user, handle, binding, verified)
    /\ UNCHANGED <<store, calls>>

\* the user recorded for a completed registration is the one who began it
CompleteRegistration ==
    \E credential \in RegistrationResponses :
        LET r == complete_registration(session, credential)
        IN  Complete("complete_registration",
                     IF begun = {} THEN {} ELSE (CHOOSE b \in begun : TRUE).user,
                     "none", r, r.result.value, {})

CompleteAuthentication ==
    \E c \in AuthenticationCalls :
        LET r == complete_authentication(session, store, c.user, c.response)
        IN  Complete("complete_authentication", c.user,
                     IF c.user = {} THEN ResponseCase(c.response) ELSE "none",
                     r, r.binding, r.user)

\* the caller persists the authenticator data a registration returned, for the
\* user of the request
AddAuthenticator ==
    /\ last.op = "complete_registration"
    /\ last.exc = OK
    /\ Len(store) < MaxRecords
    /\ \E user \in (IF last.user = {} THEN Users ELSE last.user),
          name \in Names, passwordless \in Flags :
          /\ store' = WebAuthn_add(
                          store, user, name,
                          serialize_authenticator_data(CHOOSE b \in last.value : TRUE),
                          passwordless)
          /\ last' = [NoCall EXCEPT !.op = "add", !.user = {user}]
    /\ UNCHANGED <<session, begun, issued, accepts, consumed, calls>>

Next ==
    \/ BeginRegistration
    \/ BeginAuthentication
    \/ CompleteRegistration
    \/ CompleteAuthentication
    \/ AddAuthenticator

Spec == Init /\ [][Next]_vars

\* ================================================================== claims
Begins == {"begin_registration", "begin_authentication"}
Completes == {"complete_registration", "complete_authentication"}

ChallengeAbsent == session_get(session, CHALLENGE_SESSION_KEY) = {}
StateAbsent == session_get(session, STATE_SESSION_KEY) = {}

\* the credential identifier of the record in a row
RowCredentialIds(st, i) ==
    {c.credential_id : c \in WebAuthn_authenticator_data(st[i]).credential_data}

\* C1: right after a successful complete_registration or
\* complete_authentication the session holds neither the challenge key nor
\* the ceremony-state key.
OneShotConsumption ==
    (last.op \in Completes /\ last.exc = OK) => (ChallengeAbsent /\ StateAbsent)

\* a complete_authentication succeeded on a session that held both keys
OneShotConsumptionWitness ==
    /\ last.op = "complete_authentication"
    /\ last.exc = OK
    /\ last.preChallenge # {}
    /\ last.hadState

\* C2 (as claimed): right after a complete call that failed the session holds
\* neither the challenge nor the ceremony state.
ClearOnFailure ==
    (last.op \in Completes /\ last.exc # OK) => (ChallengeAbsent /\ StateAbsent)

\* C3: a begin that follows another begin with no successful complete between
\* them is issued the same challenge; generate_challenge returns a stored
\* challenge unchanged, and stores the one it mints when none was stored.
IdempotentBegin ==
    last.op \in Begins =>
        LET challenge == (CHOOSE o \in last.value : TRUE).challenge
        IN  /\ last.prior # {} => last.prior = {challenge}
            /\ last.preChallenge # {} =>
                   /\ session_get(session, CHALLENGE_SESSION_KEY) = last.preChallenge
                   /\ {challenge} = {websafe_decode(c) : c \in last.preChallenge}
            /\ last.preChallenge = {} =>
                   session_get(session, CHALLENGE_SESSION_KEY)
                       = {websafe_encode(challenge)}

\* a begin_authentication that followed an earlier begin of the same session
\* and found the challenge stored
IdempotentBeginWitness ==
    /\ last.op = "begin_authentication"
    /\ last.prior # {}
    /\ last.preChallenge # {}
    /\ accepts = 0
    /\ Len(store) > 0

\* C4: a minted challenge is accepted by at most one successful completion,
\* and a complete call made after a successful completion with no begin in
\* between never succeeds.
ReplayResistance ==
    /\ accepts <= 1
    /\ (last.op \in Completes /\ last.wasConsumed) => last.exc # OK

\* a complete call was made after a completion had succeeded, with no begin
\* in between, and found no ceremony state
ReplayResistanceWitness ==
    /\ last.op \in Completes
    /\ last.wasConsumed
    /\ ~last.hadState
    /\ last.exc = TYPE_ERROR
    /\ accepts = 1

\* C5 (as claimed): a complete call that fails on the response it was given,
\* the ceremony state being present, raises the validation error
\* "incorrect_code".
ErrorNormalization ==
    (last.op \in Completes /\ last.hadState /\ last.exc # OK)
        => last.exc = INCORRECT_CODE

\* C6 (as claimed): a complete call made while the session holds no ceremony
\* state ends in a defined error, not in a raw exception.
MissingStateFailsSafely ==
    (last.op \in Completes /\ ~last.hadState) => last.exc = INCORRECT_CODE

\* C7 (as claimed): complete_authentication with user=None and a response
\* whose user handle is missing, undecodable or of no account raises the
\* validation error "incorrect_code".
UnknownUserFails ==
    (/\ last.op = "complete_authentication"
     /\ last.user = {}
     /\ last.handle \in {"missing", "no_mapping", "undecodable", "unknown"})
        => last.exc = INCORRECT_CODE

\* C8 (as claimed): no two webauthn records carry the same credential
\* identifier.
CredentialIdUnique ==
    \A i, j \in 1..Len(store) :
        (i # j /\ store[i].type = WEBAUTHN /\ store[j].type = WEBAUTHN)
            => RowCredentialIds(store, i) \cap RowCredentialIds(store, j) = {}

\* C9: a successful complete_authentication returns a record, and the
\* record's credential identifier is the one of the verification result.
AuthenticationResolvesCredential ==
    (last.op = "complete_authentication" /\ last.exc = OK) =>
        /\ last.value # {}
        /\ \A row \in last.value, b \in last.binding :
               RowCredentialIds(store, row) = {b.credential_id}

\* a complete_authentication succeeded for a credential that is not in the
\* first row of the table
AuthenticationResolvesCredentialWitness ==
    /\ last.op = "complete_authentication"
    /\ last.exc = OK
    /\ last.value = {2}
    /\ last.binding # {}

\* ------------------------------------------- the repository over any table
\* Rows the table may hold: webauthn records with and without credential
\* data, and authenticators of another type.
TableRows ==
    {WebAuthn_instance(
         u, n, serialize_authenticator_data([credential_data |-> cd]), p) :
         u \in Users, n \in Names, p \in Flags,
         cd \in {{}} \cup {{[credential_id |-> c]} : c \in CredIds}}
    \cup {[user |-> u, type |-> TOTP, data |-> [secret |-> "secret"]] : u \in Users}

Tables == UNION {[1..n -> TableRows] : n \in 0..MaxRecords}

RepositoryInit ==
    /\ calls = [p \in Callers |-> Idle]
    /\ session = [k \in SessionKeys |-> {}]
    /\ store \in Tables
    /\ begun = {}
    /\ issued = {}
    /\ accepts = 0
    /\ consumed = FALSE
    /\ last = NoCall

LookupByCredentialId ==
    /\ \E user \in Users, credential_id \in CredIds :
           LET r == get_authenticator_by_credential_id(store, user, credential_id)
           IN  last' = [NoCall EXCEPT !.op = "get_authenticator_by_credential_id",
                                      !.exc = r.exc,
                                      !.value = r.value,
                                      !.user = {user},
                                      !.binding = {[credential_id |-> credential_id]}]
    /\ UNCHANGED <<session, store, begun, issued, accepts, consumed, calls>>

CredentialsOfUser ==
    /\ \E user \in Users :
           last' = [NoCall EXCEPT !.op = "get_credentials",
                                  !.value = {get_credentials(store, user)},
                                  !.user = {user}]
    /\ UNCHANGED <<session, store, begun, issued, accepts, consumed, calls>>

RepositoryNext ==
    \/ LookupByCredentialId
    \/ CredentialsOfUser

RepositorySpec == RepositoryInit /\ [][RepositoryNext]_vars

\* the first webauthn row whose credential identifier is the given one
FirstMatch(st, credential_id) ==
    LET m == {i \in 1..Len(st) :
                  /\ st[i].type = WEBAUTHN
                  /\ credential_id \in RowCredentialIds(st, i)}
    IN  IF m = {} THEN {} ELSE {CHOOSE i \in m : \A j \in m : i <= j}

\* C10 (as claimed): over any table, records without credential data
\* included, get_authenticator_by_credential_id returns the first webauthn
\* record with the given credential identifier, and absent when there is none.
ReverseLookupCorrect ==
    last.op = "get_authenticator_by_credential_id" =>
        /\ last.exc = OK
        /\ \A b \in last.binding : last.value = FirstMatch(store, b.credential_id)

\* the rows of a user's webauthn records that hold credential data
CredentialRows(st, user) ==
    {i \in 1..Len(st) :
         /\ st[i].type = WEBAUTHN
         /\ st[i].user = user
         /\ WebAuthn_authenticator_data(st[i]).credential_data # {}}

\* C11: get_credentials(user) is, in storage order, exactly the credential
\* data of the user's webauthn records that have credential data: the k-th
\* credential returned is the credential data of the k-th such row.
CredentialSetOfUser ==
    last.op = "get_credentials" =>
        \A u \in last.user, credentials \in last.value :
            LET rows == CredentialRows(store, u)
            IN  /\ Len(credentials) = Cardinality(rows)
                /\ \A i \in rows :
                       {credentials[Cardinality({j \in rows : j <= i})]}
                           = WebAuthn_authenticator_data(store[i]).credential_data

\* get_credentials returned one credential from a table of two webauthn
\* records of the user, the first of which holds no credential data
CredentialSetOfUserWitness ==
    /\ last.op = "get_credentials"
    /\ Len(store) = 2
    /\ \A u \in last.user :
           /\ \A i \in 1..2 : store[i].type = WEBAUTHN /\ store[i].user = u
           /\ CredentialRows(store, u) = {2}
    /\ \A credentials \in last.value : Len(credentials) = 1

\* C12: begin_authentication hands the collaborator exactly
\* get_credentials(user) for a given user and no credentials for none, asks
\* for user verification "preferred", uses the challenge of the session (the
\* one already stored, when there was one), and leaves the state the
\* collaborator returned in the session.
BeginAuthenticationRequest ==
    (last.op = "begin_authentication" /\ last.exc = OK) =>
        \A o \in last.value :
            /\ o.credentials =
                   UNION {CredentialIds(get_credentials(store, u)) : u \in last.user}
            /\ o.userVerification = PREFERRED
            /\ session_get(session, CHALLENGE_SESSION_KEY)
                   = {websafe_encode(o.challenge)}
            /\ last.preChallenge \in {{}, {websafe_encode(o.challenge)}}
            /\ get_state(session)
                   = {authenticate_begin(
                          IF last.user = {} THEN <<>>
                          ELSE get_credentials(store, CHOOSE u \in last.user : TRUE),
                          PREFERRED, o.challenge).state}

\* begin_authentication was called for a user who has a registered credential
BeginAuthenticationRequestWitness ==
    /\ last.op = "begin_authentication"
    /\ last.exc = OK
    /\ last.user # {}
    /\ \A o \in last.value : o.credentials # {}

\* ------------------------------------------------------------ record adapter
\* the names, authenticator data and flags a caller may hand to WebAuthn.add
AdapterNames == {"key", "passkey"}
AdapterAuthenticatorData ==
    {[credential_data |-> {}]}
    \cup {[credential_data |-> {[credential_id |-> c]}] : c \in CredIds}

\* WebAuthn.add(user, name, serialize_authenticator_data(data), passwordless)
AdapterAdd ==
    /\ Len(store) < MaxRecords
    /\ \E user \in Users, name \in AdapterNames,
          authenticator_data \in AdapterAuthenticatorData,
          passwordless \in BOOLEAN :
          /\ store' = WebAuthn_add(store, user, name,
                                   serialize_authenticator_data(authenticator_data),
                                   passwordless)
          /\ last' = [NoCall EXCEPT
                          !.op = "add",
                          !.user = {user},
                          !.value = {[name |-> name,
                                      authenticator_data |-> authenticator_data,
                                      passwordless |-> passwordless]}]
    /\ UNCHANGED <<session, begun, issued, accepts, consumed, calls>>

AdapterNext == AdapterAdd

AdapterSpec == Init /\ [][AdapterNext]_vars

\* C13: the record WebAuthn.add created returns, through the adapter, the
\* name and the passwordless flag it was given, and base64-decoding its stored
\* authenticator data gives the very bytes that serialize_authenticator_data
\* encoded (so the wrapped authenticator data has those bytes too).
AdapterRoundTrip ==
    last.op = "add" =>
        \A given \in last.value :
            LET instance == store[Len(store)]
            IN  /\ WebAuthn_name(instance) = given.name
                /\ WebAuthn_is_passwordless(instance) = given.passwordless
                /\ b64decode(instance.data.authenticator_data)
                       = AuthenticatorData_bytes(given.authenticator_data)
                /\ AuthenticatorData_bytes(WebAuthn_authenticator_data(instance))
                       = AuthenticatorData_bytes(given.authenticator_data)

\* a passwordless key with credential data was added after another record
AdapterRoundTripWitness ==
    /\ last.op = "add"
    /\ Len(store) = 2
    /\ \A given \in last.value :
           /\ given.passwordless
           /\ given.authenticator_data.credential_data # {}
           /\ given.name = "passkey"

\* --------------------------------------------------------------- lifecycle
\* C14: a step that finds the challenge key present either leaves its value
\* as it is, or removes the key and is a successful complete call; no begin,
\* failed complete or record insertion overwrites or deletes a live challenge.
ChallengeLifecycle ==
    [][~ChallengeAbsent =>
           \/ session'[CHALLENGE_SESSION_KEY] = session[CHALLENGE_SESSION_KEY]
           \/ /\ session'[CHALLENGE_SESSION_KEY] = {}
              /\ last'.op \in Completes
              /\ last'.exc = OK]_vars

\* a complete call was refused while a challenge was live, and the challenge
\* is still the one that was there before the call
ChallengeLifecycleWitness ==
    /\ last.op \in Completes
    /\ last.exc = INCORRECT_CODE
    /\ last.preChallenge # {}
    /\ session_get(session, CHALLENGE_SESSION_KEY) = last.preChallenge

\* ------------------------------------------- the table changing under a session
\* WebAuthn.add called for a registration completed in another session: the
\* user gets a credential they do not hold yet
RegisterElsewhere ==
    /\ Len(store) < MaxRecords
    /\ \E user \in Users, c \in CredIds, name \in Names, passwordless \in Flags :
          /\ c \notin CredentialIds(get_credentials(store, user))
          /\ store' = WebAuthn_add(
                          store, user, name,
                          serialize_authenticator_data(
                              [credential_data |-> {[credential_id |-> c]}]),
                          passwordless)
          /\ last' = [NoCall EXCEPT !.op = "add", !.user = {user}]
    /\ UNCHANGED <<session, begun, issued, accepts, consumed, calls>>

\* account management deletes a record
DeleteAuthenticator ==
    /\ \E i \in 1..Len(store) :
          /\ store' = [k \in 1..(Len(store) - 1) |->
                           IF k < i THEN store[k] ELSE store[k + 1]]
          /\ last' = [NoCall EXCEPT !.op = "delete", !.user = {store[i].user}]
    /\ UNCHANGED <<session, begun, issued, accepts, consumed, calls>>

StoreChangeNext ==
    \/ BeginAuthentication
    \/ CompleteAuthentication
    \/ RegisterElsewhere
    \/ DeleteAuthenticator

StoreChangeSpec == Init /\ [][StoreChangeNext]_vars

\* the user a call of complete_authentication verifies credentials for
VerifiedUser(c) ==
    IF c.user # {} THEN c.user
    ELSE {url_str_to_user_pk(websafe_decode(h)) : h \in c.response.userHandle}

\* the call passes every check of the collaborator but the credential's
\* presence: a user is known, a state is pending, and the response is a
\* verifying assertion over the state's challenge
WellFormedAssertion(c) ==
    /\ c.user # {} \/ ResponseCase(c.response) = "known"
    /\ c.response.shape = "ok"
    /\ c.response.type = GET
    /\ c.response.verifies
    /\ \E state \in get_state(session) :
           websafe_decode(state.challenge) = c.response.challenge

\* C15: complete_authentication verifies against the user's credentials as
\* the table holds them when it is called: a completion that succeeded used a
\* credential the user holds now, and in every reachable state (whatever was
\* added or deleted since the begin call) a well-formed assertion is accepted
\* exactly when its credential is among the user's credentials of that moment.
CredentialSetAtCompletion ==
    /\ (last.op = "complete_authentication" /\ last.exc = OK) =>
           \A u \in last.verified, b \in last.binding :
               b.credential_id \in CredentialIds(get_credentials(store, u))
    /\ \A c \in AuthenticationCalls :
           WellFormedAssertion(c) =>
               LET r == complete_authentication(session, store, c.user, c.response)
                   held == UNION {CredentialIds(get_credentials(store, u)) :
                                      u \in VerifiedUser(c)}
               IN  /\ c.response.id \in held => r.result.exc = OK
                   /\ c.response.id \notin held => r.result.exc = INCORRECT_CODE

\* an authentication succeeded with a credential that the user did not hold
\* when the ceremony began
CredentialSetAtCompletionWitness ==
    /\ last.op = "complete_authentication"
    /\ last.exc = OK
    /\ last.user # {}
    /\ \A b \in last.binding, g \in last.began :
           /\ g.kind = "authentication"
           /\ b.credential_id \notin g.credentials
    /\ last.began # {}
    /\ last.binding # {}

\* ------------------------------------------------------- state and challenge
\* C16: whenever the session holds a ceremony state it holds a challenge too,
\* and the challenge the state expects is the stored challenge.
StateAgreesWithChallenge ==
    \A state \in get_state(session) :
        /\ ~ChallengeAbsent
        /\ \A stored \in session_get(session, CHALLENGE_SESSION_KEY) :
               websafe_decode(state.challenge) = websafe_decode(stored)

\* a begin call replaced the state of a pending ceremony of the other kind
StateAgreesWithChallengeWitness ==
    /\ last.op \in Begins
    /\ last.hadState
    /\ last.prior # {}
    /\ \E g \in last.began, b \in begun : g.kind # b.kind
    /\ ~StateAbsent

\* ------------------------------------------------------------ ceremony kinds
\* the kind of ceremony a complete call belongs to
KindOf(op) ==
    IF op = "complete_registration" THEN "registration" ELSE "authentication"

\* C17 (as claimed): the state a complete call found in the session and handed to the
\* collaborator was stored by the begin call of the same kind of ceremony:
\* complete_registration gets a state of begin_registration, and
\* complete_authentication a state of begin_authentication.
NoCeremonyKindConfusion ==
    (last.op \in Completes /\ last.hadState) =>
        \A g \in last.began : g.kind = KindOf(last.op)

\* a complete call of one kind succeeded on the state of the other kind
CeremonyKindConfused ==
    /\ last.op \in Completes
    /\ last.exc = OK
    /\ \E g \in last.began : g.kind # KindOf(last.op)

\* ----------------------------------------------------------------- ownership
\* C18 (as claimed): the record a successful complete_authentication returns is owned by
\* the user whose credentials the response was verified against (the user
\* argument, or the user of the response's user handle).
ReturnedRecordOwnedByUser ==
    (last.op = "complete_authentication" /\ last.exc = OK) =>
        /\ last.value # {}
        /\ \A row \in last.value, u \in last.verified : store[row].user = u

\* ------------------------------------------------- begin calls in parallel
\* Each begin call is taken one session access at a time: the session.get of
\* generate_challenge, its write of a new challenge when the read found none,
\* and the write of set_state.

\* challenge = context.request.session.get(CHALLENGE_SESSION_KEY), read by a
\* request entering begin_registration(user) or begin_authentication(user)
ReadChallenge ==
    \E p \in Callers,
       c \in [kind : {"registration"}, user : {{u} : u \in Users}]
             \cup [kind : {"authentication"}, user : {{}} \cup {{u} : u \in Users}] :
        /\ calls[p].pc = "idle"
        /\ LET challenge_str == session_get(session, CHALLENGE_SESSION_KEY)
           IN  calls' = [calls EXCEPT ![p] =
                   IF challenge_str # {}
                   THEN [pc |-> "set_state", kind |-> c.kind, user |-> c.user,
                         challenge |-> {websafe_decode(s) : s \in challenge_str}]
                   ELSE [pc |-> "store_challenge", kind |-> c.kind,
                         user |-> c.user, challenge |-> {}]]
        /\ UNCHANGED <<session, store, begun, issued, accepts, consumed, last>>

\* challenge = os.urandom(32); session[CHALLENGE_SESSION_KEY] = encoded
StoreChallenge ==
    \E p \in Callers, fresh \in Challenges :
        /\ calls[p].pc = "store_challenge"
        /\ session' = session_set(session, CHALLENGE_SESSION_KEY,
                                  websafe_encode(fresh))
        /\ calls' = [calls EXCEPT ![p].pc = "set_state", ![p].challenge = {fresh}]
        /\ UNCHANGED <<store, begun, issued, accepts, consumed, last>>

\* the collaborator's begin with the challenge the request holds, then
\* set_state(state); the request returns the options
StoreState ==
    \E p \in Callers :
        /\ calls[p].pc = "set_state"
        /\ LET challenge == CHOOSE x \in calls[p].challenge : TRUE
               b == IF calls[p].kind = "registration"
                    THEN LET user == CHOOSE u \in calls[p].user : TRUE
                         IN  register_begin(user, get_credentials(store, user),
                                            DISCOURAGED, challenge)
                    ELSE authenticate_begin(
                             IF calls[p].user # {}
                             THEN get_credentials(
                                      store, CHOOSE u \in calls[p].user : TRUE)
                             ELSE <<>>,
                             PREFERRED, challenge)
           IN  session' = set_state(session, b.state)
        /\ calls' = [calls EXCEPT ![p].pc = "returned"]
        /\ UNCHANGED <<store, begun, issued, accepts, consumed, last>>

ParallelNext ==
    \/ ReadChallenge
    \/ StoreChallenge
    \/ StoreState

ParallelSpec == Init /\ [][ParallelNext]_vars

\* C19 (as claimed): when the two begin calls interleaved on the session have both
\* returned, they were issued the same challenge, and the challenge the
\* stored state expects is the challenge stored in the session.
ConcurrentBeginsKeepOneChallenge ==
    (\A p \in Callers : calls[p].pc = "returned") =>
        /\ \A p, q \in Callers : calls[p].challenge = calls[q].challenge
        /\ \A state \in get_state(session) :
               {websafe_decode(state.challenge)}
                   = {websafe_decode(s) :
                          s \in session_get(session, CHALLENGE_SESSION_KEY)}

====
